---- MODULE Spec2Model ----
(***************************************************************************)
(* DailyNoteManager (src/src/plugin/daily-note-manager.ts): the engine     *)
(* that renders the reminders of a date into the marked section of that    *)
(* date's daily note (updateDailyNote) and carries checkbox edits of that  *)
(* section back to the reminders (handleFileModify).                       *)
(*                                                                         *)
(* Text is a sequence of tokens.  A token is one lexical piece of the      *)
(* persisted format: a marker, a line break, a checkbox prefix, the pieces *)
(* of the source link and of the reminder-key comment, or one character of *)
(* free text.  An asynchronous method is a task that is suspended at each  *)
(* await of the source; one action is the code that runs between two       *)
(* awaits (JavaScript runs it without interleaving).                       *)
(***************************************************************************)
EXTENDS Integers, Sequences, FiniteSets, TLC

VARIABLES
    files,       \* app.vault: the markdown files, <<[name, mtime, text]>>
    reminders,   \* this.reminders: <<[title, file, key, date, done]>>
    enabled,     \* settings.autoEmbedTodosInDailyNote.value
    isUpdating,  \* DailyNoteManager.isUpdating
    task,        \* the invocations of updateDailyNote / handleFileModify
    pending,     \* "modified" notifications the vault has not yet delivered
    stimuli      \* external events (requests, edits) still to come

vars == <<files, reminders, enabled, isUpdating, task, pending, stimuli>>

----------------------------------------------------------------------------
(* Bounds of the model *)

\* Invocations that can be in flight at once.
MaxTasks == 2
\* External events of one behaviour.
MaxStimuli == 2
\* Tokens of a file's text that are tracked (see VaultStore).
MaxDocLen == 26
\* Files of a vault whose resolution is checked, and their distinct mtimes.
MaxFiles == 3
MaxMtime == 2
\* Tokens after the title in the body of a checklist line whose matching is
\* checked.
MaxBody == 3

Tasks == 1..MaxTasks

----------------------------------------------------------------------------
(* Text *)

\* `<!-- start of ${marker} -->` and `<!-- end of ${marker} -->`
startMarker == <<"S">>
endMarker == <<"E">>
NL == "nl"

Min(a, b) == IF a < b THEN a ELSE b
Max(a, b) == IF a > b THEN a ELSE b

\* String.prototype.indexOf: the 0-based place of the first occurrence, or -1.
IndexOf(s, pat) ==
    LET n == Len(pat)
        At(i) == SubSeq(s, i + 1, i + n) = pat
        hits == {i \in 0..(Len(s) - n) : At(i)}
    IN IF hits = {} THEN -1
       ELSE CHOOSE i \in hits : \A j \in hits : i <= j

\* String.prototype.substring(a, b), 0-based, b exclusive: the arguments are
\* clamped to the string and swapped when a > b.
Substring(s, a, b) ==
    LET ca == Max(0, Min(a, Len(s)))
        cb == Max(0, Min(b, Len(s)))
    IN SubSeq(s, Min(ca, cb) + 1, Max(ca, cb))

\* String.prototype.substring(a): to the end of the string.
SubstringFrom(s, a) == Substring(s, a, Len(s))

\* String.prototype.startsWith
StartsWith(s, p) == Len(p) <= Len(s) /\ SubSeq(s, 1, Len(p)) = p

\* String.prototype.split("\n"): the pieces between the line breaks, the
\* k-th piece running from after the (k-1)-th break to before the k-th.
Split(s) ==
    LET breaks == {i \in 1..Len(s) : s[i] = NL}
        brk(k) == IF k = 0 THEN 0
                  ELSE IF k > Cardinality(breaks) THEN Len(s) + 1
                  ELSE CHOOSE i \in breaks : Cardinality({j \in breaks : j < i}) = k - 1
    IN [k \in 1..(Cardinality(breaks) + 1) |-> SubSeq(s, brk(k - 1) + 1, brk(k) - 1)]

\* Array.prototype.join("\n")
RECURSIVE Join(_)
Join(ls) ==
    IF ls = <<>> THEN <<>>
    ELSE IF Len(ls) = 1 THEN ls[1]
    ELSE ls[1] \o <<NL>> \o Join(Tail(ls))

\* String.prototype.trim: "sp" is the white-space token.
RECURSIVE TrimLeft(_)
TrimLeft(s) == IF s # <<>> /\ s[1] = "sp" THEN TrimLeft(Tail(s)) ELSE s
RECURSIVE TrimRight(_)
TrimRight(s) ==
    IF s # <<>> /\ s[Len(s)] = "sp" THEN TrimRight(SubSeq(s, 1, Len(s) - 1)) ELSE s
Trim(s) == TrimRight(TrimLeft(s))

----------------------------------------------------------------------------
(* Reminders *)

\* Reminder.key()
Key(r) == r.key

\* Reminders.byDate: the reminders of a date, in collection order (as places
\* in the collection: the engine holds references to the objects).
RECURSIVE ByDateFrom(_, _, _)
ByDateFrom(rems, date, i) ==
    IF i > Len(rems) THEN <<>>
    ELSE (IF rems[i].date = date THEN <<i>> ELSE <<>>) \o ByDateFrom(rems, date, i + 1)
\* The whole collection, whatever the date.
byDateAll(rems, date) == [i \in 1..Len(rems) |-> i]

byDate(rems, date) == ByDateFrom(rems, date, 1)

----------------------------------------------------------------------------
(* updateReminderSection *)

\* `- [${check}] ${r.title} [[${r.file}|source]] <!-- reminder-key: ${r.key()} -->`
ReminderLine(r) ==
    <<IF r.done THEN "cb1" ELSE "cb0">> \o r.title \o <<"lo", r.file, "lc">>
        \o <<"ko">> \o Key(r) \o <<"kc">>

RECURSIVE MapLines(_, _)
MapLines(rems, idx) ==
    IF idx = <<>> THEN <<>>
    ELSE <<ReminderLine(rems[Head(idx)])>> \o MapLines(rems, Tail(idx))

\* reminders.map(...).join("\n")
reminderLines(rems, idx) == Join(MapLines(rems, idx))

\* `${startMarker}\n${reminderLines}\n${endMarker}`
newSection(rems, idx) ==
    startMarker \o <<NL>> \o reminderLines(rems, idx) \o <<NL>> \o endMarker

\* The method with a check of the start marker only.
updateReminderSectionStartOnly(content, rems, idx) ==
    LET startIndex == IndexOf(content, startMarker)
        endIndex == IndexOf(content, endMarker)
    IN IF startIndex = -1
       THEN [found |-> FALSE, text |-> <<>>]
       ELSE [found |-> TRUE,
             text |-> Substring(content, 0, startIndex) \o newSection(rems, idx)
                        \o SubstringFrom(content, endIndex + Len(endMarker))]

\* The string the method returns, or found = FALSE for null.
updateReminderSection(content, rems, idx) ==
    LET startIndex == IndexOf(content, startMarker)
        endIndex == IndexOf(content, endMarker)
    IN IF startIndex = -1 \/ endIndex = -1
       THEN [found |-> FALSE, text |-> <<>>]
       ELSE [found |-> TRUE,
             text |-> Substring(content, 0, startIndex) \o newSection(rems, idx)
                        \o SubstringFrom(content, endIndex + Len(endMarker))]

----------------------------------------------------------------------------
(* The vault's files *)

NoFile == 0
NoDate == "nodate"
\* Calendar dates, as their YYYY-MM-DD strings.
Dates == {"d1", "d2"}
\* What /\d{4}-\d{2}-\d{2}/ matches: a date, or digits moment rejects ("bad").
DatePatterns == Dates \cup {"bad"}

\* TFile.basename and TFile.name (getMarkdownFiles: the extension is "md")
basename(f) == f.base
name(f) == f.base \o <<".md">>

\* file.name.match(/(\d{4}-\d{2}-\d{2})/) and moment(...).isValid()
getDailyNoteDate(f) ==
    LET n == name(f)
        hits == {i \in 1..Len(n) : n[i] \in DatePatterns}
    IN IF hits = {} THEN NoDate
       ELSE LET dateStr == n[CHOOSE i \in hits : \A j \in hits : i <= j]
            IN IF dateStr \in Dates THEN dateStr ELSE NoDate

\* files.filter(...), as places in the file list, in its order
FilterFiles(fs, P(_)) ==
    SelectSeq([i \in 1..Len(fs) |-> i], LAMBDA i : P(fs[i]))

\* The reducer that keeps the earlier of two files of the same mtime.
EarlierOrLater(fs, prev, current) ==
    IF fs[prev].mtime >= fs[current].mtime THEN prev ELSE current

\* (prev, current) => (prev.stat.mtime > current.stat.mtime) ? prev : current
Later(fs, prev, current) ==
    IF fs[prev].mtime > fs[current].mtime THEN prev ELSE current

\* matchingFiles.reduce(...), without an initial value
RECURSIVE ReduceMtime(_, _, _)
ReduceMtime(fs, prev, rest) ==
    IF rest = <<>> THEN prev
    ELSE ReduceMtime(fs, Later(fs, prev, Head(rest)), Tail(rest))

\* findDailyNote without the precise match.
findDailyNoteLoose(fs, date) ==
    LET Loose(f) == IndexOf(name(f), <<date>>) # -1
        matchingFiles == FilterFiles(fs, Loose)
    IN IF matchingFiles = <<>> THEN NoFile
       ELSE ReduceMtime(fs, Head(matchingFiles), Tail(matchingFiles))

findDailyNote(fs, date) ==
    LET dateStr == <<date>>
        Exact(f) == basename(f) = dateStr
        Loose(f) == IndexOf(name(f), dateStr) # -1
        precise == FilterFiles(fs, Exact)
        matchingFiles == IF precise = <<>> THEN FilterFiles(fs, Loose) ELSE precise
    IN IF matchingFiles = <<>> THEN NoFile
       ELSE ReduceMtime(fs, Head(matchingFiles), Tail(matchingFiles))

\* The text a write leaves in the vault: its first MaxDocLen tokens are tracked.
VaultStore(text) == Substring(text, 0, MaxDocLen)

\* stat.mtime after a write to file f: newer than every other file's.  The
\* times are kept as ranks, which is all findDailyNote compares.
Touched(fs, f) ==
    LET top == 1 + Len(fs)
        raw == [g \in 1..Len(fs) |-> IF g = f THEN top ELSE fs[g].mtime]
        rank(g) == 1 + Cardinality({raw[h] : h \in {h \in 1..Len(fs) : raw[h] < raw[g]}})
    IN [g \in 1..Len(fs) |-> [fs[g] EXCEPT !.mtime = rank(g)]]

\* vault.modify(f, text), and an editor's save of f
Written(fs, f, text) == Touched([fs EXCEPT ![f].text = VaultStore(text)], f)

----------------------------------------------------------------------------
(* Checklist lines *)

\* Todo.parse(0, line) and Todo.isChecked(): a line that starts with `- [ ] `
\* or `- [x] `; the rest of the line is the body.
TodoParse(line) ==
    IF line # <<>> /\ line[1] \in {"cb0", "cb1"}
    THEN [ok |-> TRUE, checked |-> (line[1] = "cb1"), body |-> Tail(line)]
    ELSE [ok |-> FALSE, checked |-> FALSE, body |-> <<>>]

\* todo.body.match(/<!-- reminder-key: (.*?) -->/): the leftmost opening that
\* has a closing after it, up to the nearest closing.  `key` is <<>> for a
\* failed match as for an empty capture: `if (key)` takes both as absent.
keyMatch(body) ==
    LET opens == {i \in 1..Len(body) :
                    body[i] = "ko" /\ \E j \in (i + 1)..Len(body) : body[j] = "kc"}
    IN IF opens = {} THEN <<>>
       ELSE LET i == CHOOSE o \in opens : \A p \in opens : o <= p
                j == CHOOSE c \in (i + 1)..Len(body) :
                        body[c] = "kc" /\ \A e \in (i + 1)..(c - 1) : body[e] # "kc"
            IN SubSeq(body, i + 1, j - 1)

\* todosOfDate.find(r => key ? r.key() === key : todo.body.startsWith(r.title)):
\* the place in the collection of the first match, or 0.
FindFirst(rems, idx, P(_)) ==
    LET hits == SelectSeq(idx, LAMBDA i : P(rems[i]))
    IN IF hits = <<>> THEN 0 ELSE Head(hits)

matchingReminder(rems, idx, body) ==
    LET key == keyMatch(body)
        ByKey(r) == Key(r) = key
        ByTitle(r) == StartsWith(body, r.title)
    IN IF key # <<>> THEN FindFirst(rems, idx, ByKey) ELSE FindFirst(rems, idx, ByTitle)

\* contentString.substring(startIndex + startMarker.length, endIndex).split("\n")
sectionLines(contentString) ==
    LET startIndex == IndexOf(contentString, startMarker)
        endIndex == IndexOf(contentString, endMarker)
    IN Split(Substring(contentString, startIndex + Len(startMarker), endIndex))

\* The element of a one-element set
TheOne(S) == CHOOSE v \in S : TRUE

\* Todo.parse(0, line.trim()) and the reminder the parsed line identifies
\* (0: none, or not a checklist line).
todoOf(line) == TodoParse(Trim(line))
reminderOf(rems, idx, line) ==
    IF todoOf(line).ok THEN matchingReminder(rems, idx, todoOf(line).body) ELSE 0

\* The test below without the comparison of the states.
DiffersOrNot(rems, idx, line) == reminderOf(rems, idx, line) # 0

\* `matchingReminder && matchingReminder.done !== isChecked`: the line makes
\* the loop call updateReminder.
Differs(rems, idx, line) ==
    /\ reminderOf(rems, idx, line) # 0
    /\ rems[reminderOf(rems, idx, line)].done # todoOf(line).checked

\* One pass of `for (const line of lines)` from line i on, up to the first
\* line that makes the loop call updateReminder: <<line, reminder, isChecked>>,
\* or <<0, 0, FALSE>> when the loop ends without a call.
NextSync(rems, idx, lines, i) ==
    LET calls == {k \in i..Len(lines) : Differs(rems, idx, lines[k])}
    IN IF calls = {} THEN <<0, 0, FALSE>>
       ELSE TheOne({<<k, reminderOf(rems, idx, lines[k]), todoOf(lines[k]).checked>> :
                       k \in {c \in calls : \A d \in calls : c <= d}})

----------------------------------------------------------------------------
(* Invocations *)

\* What is kept of the invocation that ended last when the next one begins:
\* what it was, how it ended, the text it read and the text it left.
NoPrev ==
    [op |-> "none", date |-> NoDate, file |-> NoFile, out |-> "none", hout |-> "none",
     content |-> <<>>, left |-> <<>>, sinks |-> <<>>]
\* The same where the invocations keep no history.
NoHistory == [NoPrev EXCEPT !.op = "off"]

\* An invocation that has not begun.  op, pc and the locals of the two
\* methods; then what the invocation has done so far: the notices it showed,
\* the files it asked the vault to read, the files it wrote, the
\* updateReminder calls it made, how updateDailyNote ended (out) and how
\* handleFileModify ended (hout), the guard each met on entry (metGuard,
\* hGuard), the reminders' done states when handleFileModify got its text
\* (seen), the edit its notification came from (why) and the invocation
\* before it (prev).
NewTask(op) ==
    [op |-> op, pc |-> "free", quiet |-> TRUE, date |-> NoDate,
     file |-> NoFile, dailyNote |-> NoFile, todosOfDate |-> <<>>,
     content |-> <<>>, newContentString |-> <<>>,
     lines |-> <<>>, line |-> 0, changed |-> FALSE, call |-> <<0, FALSE>>,
     notices |-> <<>>, reads |-> <<>>, writes |-> <<>>, sinks |-> <<>>,
     out |-> "none", hout |-> "none", metGuard |-> FALSE, hGuard |-> FALSE,
     seen |-> <<>>, why |-> <<0, FALSE>>, prev |-> NoPrev]

Summary(tk) ==
    [op |-> tk.op, date |-> tk.date, file |-> tk.file, out |-> tk.out, hout |-> tk.hout,
     content |-> tk.content,
     left |-> IF tk.out = "updated" THEN VaultStore(tk.newContentString) ELSE tk.content,
     sinks |-> tk.sinks]

\* The invocations that are suspended at an await.
InFlight == {t \in Tasks : task[t].pc \notin {"free", "done"}}
\* The invocations between `this.isUpdating = true` and the finally block.
InGuarded == {t \in Tasks : task[t].pc \in {"udn_read", "udn_modify", "udn_resume"}}
\* A place for a new invocation: the lowest that holds no suspended one.
HasSlot == \E t \in Tasks : t \notin InFlight
Slot == CHOOSE t \in Tasks : t \notin InFlight /\ \A u \in Tasks : u \notin InFlight => t <= u
\* The new invocation, which remembers the ended one whose place it takes.
Fresh(op) ==
    [NewTask(op) EXCEPT !.prev = IF task[Slot].prev = NoHistory THEN NoHistory
                                 ELSE IF task[Slot].pc = "done" THEN Summary(task[Slot])
                                 ELSE NoPrev]

\* new Notice(...) without the test of quiet.
NoticeAnyway(tk, msg) == [tk EXCEPT !.notices = Append(@, msg)]

\* new Notice(...), under `if (!quiet)`
Notice(tk, msg) == IF tk.quiet THEN tk ELSE [tk EXCEPT !.notices = Append(@, msg)]

\* updateDailyNote's entry check without the guard.
UdnSkipsUnguarded == ~enabled

\* `!this.settings.autoEmbedTodosInDailyNote.value || this.isUpdating`
UdnSkips == ~enabled \/ isUpdating

\* handleFileModify's entry check without the guard.
HfmSkipsUnguarded == ~enabled

\* `this.isUpdating || !this.settings.autoEmbedTodosInDailyNote.value`
HfmSkips == isUpdating \/ ~enabled

\* An exit that leaves the guard as it is.
FinallyKeeps == isUpdating

\* The finally block: `this.isUpdating = false`
Finally == FALSE

\* updateDailyNote(quiet, specificDate) up to `await this.app.vault.read(dailyNote)`
UdnEnter(tk, quiet, targetDate) ==
    LET t0 == [tk EXCEPT !.quiet = quiet, !.date = targetDate, !.metGuard = isUpdating]
        dailyNote == findDailyNote(files, targetDate)
    IN IF UdnSkips THEN [t0 EXCEPT !.pc = "done", !.out = "noop"]
       ELSE IF dailyNote = NoFile
       THEN [Notice(t0, "notfound") EXCEPT !.pc = "done", !.out = "notfound"]
       ELSE [t0 EXCEPT !.pc = "udn_read", !.dailyNote = dailyNote,
                       !.todosOfDate = byDate(reminders, targetDate),
                       !.reads = Append(@, dailyNote)]

\* updateDailyNote from the read's result up to `await this.app.vault.modify(...)`
\* or to its end
UdnAfterRead(tk, content, rems) ==
    LET res == updateReminderSection(content, rems, tk.todosOfDate)
        t0 == [tk EXCEPT !.content = content]
    IN IF ~res.found
       THEN [Notice(t0, "nomarkers") EXCEPT !.pc = "done", !.out = "nomarkers"]
       ELSE IF content # res.text
       THEN [t0 EXCEPT !.pc = "udn_modify", !.newContentString = res.text]
       ELSE [Notice(t0, "uptodate") EXCEPT !.pc = "done", !.out = "uptodate"]

\* The catch block
UdnCatch(tk) == [Notice(tk, "failed") EXCEPT !.pc = "done", !.out = "failed"]

\* handleFileModify's loop from line i on, up to `await this.updateReminder(...)`,
\* and what follows the loop up to `await this.updateDailyNote(true, fileDate)`
HfmLoop(tk, rems, i) ==
    LET nx == NextSync(rems, tk.todosOfDate, tk.lines, i)
    IN IF nx[1] # 0
       THEN [tk EXCEPT !.pc = "hfm_sink", !.line = nx[1], !.call = <<nx[2], nx[3]>>,
                       !.sinks = Append(@, <<nx[2], nx[3]>>)]
       ELSE IF ~tk.changed
       THEN UdnEnter([tk EXCEPT !.hout = "heal"], TRUE, tk.date)
       ELSE [tk EXCEPT !.pc = "done", !.hout = "synced"]

\* handleFileModify(file) up to `await this.app.vault.read(file)`
HfmEnter(tk, f) ==
    LET t0 == [tk EXCEPT !.file = f, !.hGuard = isUpdating]
        fileDate == getDailyNoteDate(files[f])
    IN IF HfmSkips THEN [t0 EXCEPT !.pc = "done", !.hout = "dropped"]
       ELSE IF fileDate = NoDate THEN [t0 EXCEPT !.pc = "done", !.hout = "nodate"]
       ELSE [t0 EXCEPT !.pc = "hfm_read", !.date = fileDate, !.reads = Append(@, f)]

\* handleFileModify from the read's result on
HfmAfterRead(tk, contentString, rems) ==
    LET startIndex == IndexOf(contentString, startMarker)
        endIndex == IndexOf(contentString, endMarker)
        t0 == [tk EXCEPT !.content = contentString,
                         !.seen = [r \in 1..Len(rems) |-> rems[r].done]]
    IN IF startIndex = -1 \/ endIndex = -1
       THEN [t0 EXCEPT !.pc = "done", !.hout = "nomarkers"]
       ELSE TheOne({HfmLoop(t1, rems, 1) :
                       t1 \in {[t0 EXCEPT !.lines = sectionLines(contentString),
                                           !.todosOfDate = byDate(rems, tk.date)]}})

\* The guard as it would be if the early return passed the finally block.
AcquiredOrCleared(tk) == tk.pc = "udn_read"

\* `this.isUpdating = true`, reached when the invocation goes on to the read
Acquired(tk) == IF tk.pc = "udn_read" THEN TRUE ELSE isUpdating

----------------------------------------------------------------------------
(* Initial states *)

\* The reminders' texts: two titles, one a prefix of the other.
Rem(title, key, date, done) ==
    [title |-> title, file |-> "n", key |-> <<key>>, date |-> date, done |-> done]

\* The collections of the interleaved runs.
InitReminders ==
    {<<Rem(<<"a">>, "k1", "d1", d)>> : d \in BOOLEAN}
    \cup {<<Rem(<<"a">>, "k1", "d1", FALSE), Rem(<<"a", "b">>, "k2", "d1", TRUE)>>}

\* More collections, for the runs of one invocation after the other: none,
\* two reminders of the date, and a reminder of another date before one of
\* the date.
MoreReminders ==
    {<<>>}
    \cup {<<Rem(<<"a">>, "k1", "d1", d), Rem(<<"a", "b">>, "k2", "d1", e)>> :
            d \in BOOLEAN, e \in BOOLEAN}
    \cup {<<Rem(<<"a", "b">>, "k2", "d2", TRUE), Rem(<<"a">>, "k1", "d1", TRUE)>>}

\* Texts of a daily note: an empty section inside other text, a section with
\* a checked line for key k1, and a text without the end marker.
InitDocs ==
    {<<"t", "S", "nl", "nl", "E", "t">>,
     <<"S", "nl", "cb1", "a", "lo", "n", "lc", "ko", "k1", "kc", "nl", "E">>,
     <<"S", "nl", "t">>}

\* More texts: the end marker before the start marker, a section with a line
\* that carries no key, a section with two lines for key k1 that differ in
\* their checkbox, and one with two lines that agree.
MoreDocs ==
    {<<"E", "t", "S">>,
     <<"S", "nl", "cb0", "a", "b", "nl", "E">>,
     <<"S", "nl", "cb1", "ko", "k1", "kc", "nl", "cb0", "ko", "k1", "kc", "nl", "E">>,
     <<"S", "nl", "cb1", "ko", "k1", "kc", "nl", "cb1", "ko", "k1", "kc", "nl", "E">>}

File(base, mtime, text) == [base |-> base, mtime |-> mtime, text |-> text]

\* The note of d1 and a file whose name only contains d1's date.
Vaults(docs) ==
    {<<File(<<"d1">>, 1, x), File(<<"x", "d1">>, 2, <<"t", "S", "nl", "nl", "E", "t">>)>> :
        x \in docs}

\* The state after construction, n external events to come; history says
\* whether an invocation remembers the one before it.
InitWith(docs, rems, n, history) ==
    /\ files \in Vaults(docs)
    /\ reminders \in rems
    /\ enabled \in BOOLEAN
    /\ isUpdating = FALSE
    /\ task = [t \in Tasks |-> [NewTask("none") EXCEPT !.prev = IF history THEN NoPrev ELSE NoHistory]]
    /\ pending = {}
    /\ stimuli = n

Init == InitWith(InitDocs, InitReminders, MaxStimuli, FALSE)

----------------------------------------------------------------------------
(* The environment *)

\* A "modified" notification: the file, and the edit it comes from (the
\* reminder a toggled line identifies and the line's new state; <<0, FALSE>>
\* for any other edit).
Notification(f, why) == [file |-> f, why |-> why]

\* A command or a timer of the plugin calls updateDailyNote(quiet, date).
StartUpdate(quiet, date) ==
    /\ stimuli > 0
    /\ HasSlot
    /\ LET tk == UdnEnter(Fresh("udn"), quiet, date)
       IN /\ task' = [task EXCEPT ![Slot] = tk]
          /\ isUpdating' = Acquired(tk)
    /\ stimuli' = stimuli - 1
    /\ UNCHANGED <<files, reminders, enabled, pending>>

\* The line of text that holds place p.
LineAt(text, p) ==
    LET before == {i \in 1..(p - 1) : text[i] = NL}
        after == {i \in p..Len(text) : text[i] = NL}
        lo == IF before = {} THEN 1 ELSE 1 + CHOOSE i \in before : \A j \in before : j <= i
        hi == IF after = {} THEN Len(text) ELSE (CHOOSE i \in after : \A j \in after : i <= j) - 1
    IN SubSeq(text, lo, hi)

\* The reminder that the line at place p of file f identifies, when the line
\* is a checklist line of the marked section, and the line's state.
ToggleCause(fs, rems, f, p) ==
    LET text == fs[f].text
        line == LineAt(text, p)
        todo == TodoParse(Trim(line))
        date == getDailyNoteDate(fs[f])
        marked == IndexOf(text, startMarker) # -1 /\ IndexOf(text, endMarker) # -1
        inSection == marked /\ \E k \in 1..Len(sectionLines(text)) : sectionLines(text)[k] = line
    IN IF todo.ok /\ date # NoDate /\ inSection
       THEN <<matchingReminder(rems, byDate(rems, date), todo.body), todo.checked>>
       ELSE <<0, FALSE>>

\* The user toggles the checkbox that starts the line at place p of file f.
UserToggle(f, p) ==
    /\ stimuli > 0
    /\ p \in 1..Len(files[f].text)
    /\ files[f].text[p] \in {"cb0", "cb1"}
    /\ p = 1 \/ files[f].text[p - 1] = NL
    /\ LET flipped == IF files[f].text[p] = "cb0" THEN "cb1" ELSE "cb0"
           fs == Written(files, f, [files[f].text EXCEPT ![p] = flipped])
       IN /\ files' = fs
          /\ pending' = pending \cup {Notification(f, ToggleCause(fs, reminders, f, p))}
    /\ stimuli' = stimuli - 1
    /\ UNCHANGED <<reminders, enabled, isUpdating, task>>

\* File f is saved with its text as it was.
UserSave(f) ==
    /\ stimuli > 0
    /\ files' = Touched(files, f)
    /\ pending' = pending \cup {Notification(f, <<0, FALSE>>)}
    /\ stimuli' = stimuli - 1
    /\ UNCHANGED <<reminders, enabled, isUpdating, task>>

----------------------------------------------------------------------------
(* updateDailyNote *)

\* vault.read(dailyNote) resolves.
UdnReadOk(t) ==
    /\ task[t].pc = "udn_read"
    /\ LET tk == UdnAfterRead(task[t], files[task[t].dailyNote].text, reminders)
       IN /\ task' = [task EXCEPT ![t] = tk]
          /\ isUpdating' = IF tk.pc = "done" THEN Finally ELSE isUpdating
    /\ UNCHANGED <<files, reminders, enabled, pending, stimuli>>

\* vault.read(dailyNote) rejects.
UdnReadFail(t) ==
    /\ task[t].pc = "udn_read"
    /\ task' = [task EXCEPT ![t] = UdnCatch(@)]
    /\ isUpdating' = Finally
    /\ UNCHANGED <<files, reminders, enabled, pending, stimuli>>

\* vault.modify(dailyNote, newContentString) writes the file; the vault has
\* its "modified" notification to deliver.
VaultModify(t) ==
    /\ task[t].pc = "udn_modify"
    /\ files' = Written(files, task[t].dailyNote, task[t].newContentString)
    /\ pending' = pending \cup {Notification(task[t].dailyNote, <<0, FALSE>>)}
    /\ task' = [task EXCEPT ![t].pc = "udn_resume",
                            ![t].writes = Append(@, task[t].dailyNote)]
    /\ UNCHANGED <<reminders, enabled, isUpdating, stimuli>>

\* vault.modify rejects.
UdnModifyFail(t) ==
    /\ task[t].pc = "udn_modify"
    /\ task' = [task EXCEPT ![t] = UdnCatch(@)]
    /\ isUpdating' = Finally
    /\ UNCHANGED <<files, reminders, enabled, pending, stimuli>>

\* updateDailyNote goes on after `await this.app.vault.modify(...)`.
UdnResume(t) ==
    /\ task[t].pc = "udn_resume"
    /\ task' = [task EXCEPT ![t] = [Notice(@, "updated") EXCEPT !.pc = "done", !.out = "updated"]]
    /\ isUpdating' = Finally
    /\ UNCHANGED <<files, reminders, enabled, pending, stimuli>>

----------------------------------------------------------------------------
(* handleFileModify *)

\* The vault delivers notification n: handleFileModify(n.file) begins.
Deliver(n) ==
    /\ n \in pending
    /\ HasSlot
    /\ pending' = pending \ {n}
    /\ task' = [task EXCEPT ![Slot] = HfmEnter([Fresh("hfm") EXCEPT !.why = n.why], n.file)]
    /\ UNCHANGED <<files, reminders, enabled, isUpdating, stimuli>>

\* vault.read(file) resolves.
HfmReadOk(t) ==
    /\ task[t].pc = "hfm_read"
    /\ \E tk \in {HfmAfterRead(task[t], files[task[t].file].text, reminders)} :
          /\ task' = [task EXCEPT ![t] = tk]
          /\ isUpdating' = Acquired(tk)
    /\ UNCHANGED <<files, reminders, enabled, pending, stimuli>>

\* vault.read(file) rejects: handleFileModify ends with the failure.
HfmReadFail(t) ==
    /\ task[t].pc = "hfm_read"
    /\ task' = [task EXCEPT ![t].pc = "done", ![t].hout = "threw"]
    /\ UNCHANGED <<files, reminders, enabled, isUpdating, pending, stimuli>>

\* updateReminder(matchingReminder, isChecked) resolves: the reminder holds
\* the checked state.
SinkOk(t) ==
    /\ task[t].pc = "hfm_sink"
    /\ \E rems \in {[reminders EXCEPT ![task[t].call[1]].done = task[t].call[2]]} :
          \E tk \in {HfmLoop([task[t] EXCEPT !.changed = TRUE], rems, task[t].line + 1)} :
             /\ reminders' = rems
             /\ task' = [task EXCEPT ![t] = tk]
    /\ UNCHANGED <<files, enabled, isUpdating, pending, stimuli>>

\* updateReminder rejects: handleFileModify ends with the failure.
SinkFail(t) ==
    /\ task[t].pc = "hfm_sink"
    /\ task' = [task EXCEPT ![t].pc = "done", ![t].hout = "threw"]
    /\ UNCHANGED <<files, reminders, enabled, isUpdating, pending, stimuli>>

----------------------------------------------------------------------------
(* Specifications *)

\* A step of a suspended invocation whose await resolves.
Step ==
    \/ \E t \in Tasks : UdnReadOk(t) \/ VaultModify(t) \/ UdnResume(t)
    \/ \E t \in Tasks : HfmReadOk(t) \/ SinkOk(t)

\* A step of a suspended invocation whose await rejects.
Fail ==
    \E t \in Tasks : UdnReadFail(t) \/ UdnModifyFail(t) \/ HfmReadFail(t) \/ SinkFail(t)

Notify == \E n \in pending : Deliver(n)

Environment ==
    \/ \E quiet \in BOOLEAN, date \in Dates : StartUpdate(quiet, date)
    \/ \E f \in 1..Len(files), p \in 1..MaxDocLen : UserToggle(f, p)
    \/ \E f \in 1..Len(files) : UserSave(f)

Next == Step \/ Fail \/ Notify \/ Environment

\* Any interleaving of the engine's invocations with the user's edits and
\* with failures of the vault and of updateReminder.
Spec == Init /\ [][Next]_vars

\* One invocation after the other: a request, an edit or a notification
\* comes when no invocation is suspended, and no await rejects.
InitSeq ==
    InitWith(InitDocs \cup MoreDocs, InitReminders \cup MoreReminders, MaxStimuli, TRUE)
NextSeq ==
    \/ Step
    \/ InFlight = {} /\ Notify
    \/ InFlight = {} /\ Environment
SpecSeq == InitSeq /\ [][NextSeq]_vars

\* The engine left to itself after one external event: every notification
\* is delivered and every await resolves.
InitLoop == InitWith(InitDocs \cup MoreDocs, InitReminders \cup MoreReminders, 1, FALSE)
NextLoop == Step \/ Notify \/ Environment
SpecLoop == InitLoop /\ [][NextLoop]_vars /\ WF_vars(Step) /\ WF_vars(Notify)

----------------------------------------------------------------------------
(* The re-entrancy guard *)

\* C1: at most one updateDailyNote invocation is between `isUpdating = true`
\* and the finally block at a time, and an updateDailyNote that met the guard
\* set when it began has returned at the entry check: it resolved no file,
\* wrote nothing and showed nothing.
C1_OneRenderAtATime ==
    /\ Cardinality(InGuarded) <= 1
    /\ InGuarded # {} => isUpdating
    /\ \A t \in Tasks :
         task[t].metGuard =>
            /\ task[t].pc = "done" /\ task[t].out = "noop"
            /\ task[t].dailyNote = NoFile /\ task[t].writes = <<>>
            /\ task[t].notices = <<>>

\* A render is suspended and a second updateDailyNote has returned at the check.
C1_Witness ==
    \E t \in InGuarded, u \in Tasks :
        task[u].op = "udn" /\ task[u].metGuard /\ task[u].out = "noop"

\* What a handleFileModify that met the guard set has done: nothing.
Dropped(tk) ==
    /\ tk.pc = "done" /\ tk.hout = "dropped"
    /\ tk.reads = <<>> /\ tk.sinks = <<>> /\ tk.writes = <<>> /\ tk.out = "none"

\* C2: a handleFileModify that begins while isUpdating is true is dropped:
\* it reads no file, calls updateReminder zero times and starts no render,
\* and the step that drops it takes its notification away and leaves no
\* invocation suspended, no guard and no file changed (nothing is queued).
C2_DroppedWhileUpdating ==
    /\ [](\A t \in Tasks : task[t].hGuard => Dropped(task[t]))
    /\ [][\A n \in pending :
            (isUpdating /\ pending' = pending \ {n}) =>
               /\ InFlight' = InFlight
               /\ \A t \in Tasks : task'[t] = task[t] \/ Dropped(task'[t])
               /\ files' = files /\ reminders' = reminders /\ isUpdating' = isUpdating]_vars

\* The notification of the engine's own write was dropped while the render
\* that wrote is still suspended.
C2_Witness ==
    \E t \in Tasks, u \in Tasks :
        /\ task[u].pc = "udn_resume"
        /\ task[t].op = "hfm" /\ task[t].hGuard /\ task[t].hout = "dropped"
        /\ task[t].file = task[u].dailyNote
        /\ stimuli = MaxStimuli - 1

----------------------------------------------------------------------------
(* Exits of updateDailyNote *)

\* The text has no start marker or no end marker.
LacksMarker(text) ==
    \/ \A i \in 1..Len(text) : text[i] # "S"
    \/ \A i \in 1..Len(text) : text[i] # "E"

\* updateDailyNote of invocation t has got the text of its read.
UdnHasText(t) ==
    \/ task[t].pc \in {"udn_modify", "udn_resume"}
    \/ task[t].out \in {"nomarkers", "updated", "uptodate"}

\* C6: an updateDailyNote whose document lacks the start or the end marker
\* ends with the markers-not-found outcome, has written nothing, has shown
\* the markers-not-found notice only when quiet is false, and the step that
\* ends it leaves the files as they were and isUpdating false.
C6_MissingMarkers ==
    /\ [](\A t \in Tasks :
            (UdnHasText(t) /\ LacksMarker(task[t].content)) =>
               /\ task[t].pc = "done" /\ task[t].out = "nomarkers"
               /\ task[t].writes = <<>>
               /\ task[t].notices = IF task[t].quiet THEN <<>> ELSE <<"nomarkers">>)
    /\ [][\A t \in Tasks :
            (task[t].out # "nomarkers" /\ task'[t].out = "nomarkers") =>
               (files' = files /\ ~isUpdating')]_vars

\* A loud updateDailyNote has ended markers-not-found.
C6_Witness ==
    \E t \in Tasks :
        /\ task[t].out = "nomarkers" /\ ~task[t].quiet
        /\ LacksMarker(task[t].content)
        /\ task[t].notices = <<"nomarkers">> /\ ~isUpdating

\* C10: a failure of vault.read or vault.modify inside updateDailyNote is
\* caught: the invocation ends, handleFileModify around it does not end with
\* a failure, the generic-failure notice is shown only when quiet is false;
\* and on every exit isUpdating is false again: it is false whenever no
\* render is in flight, and the step that ends a render leaves it false.
C10_FailureIsolation ==
    /\ [](InGuarded = {} => ~isUpdating)
    /\ [](\A t \in Tasks :
            task[t].out = "failed" =>
               /\ task[t].pc = "done" /\ task[t].hout # "threw"
               /\ task[t].notices = IF task[t].quiet THEN <<>> ELSE <<"failed">>)
    /\ [][\A t \in Tasks :
            (t \in InGuarded /\ task'[t].pc = "done") => ~isUpdating']_vars

\* vault.modify has failed in a loud updateDailyNote.
C10_Witness ==
    \E t \in Tasks :
        /\ task[t].out = "failed" /\ ~task[t].quiet
        /\ task[t].newContentString # <<>> /\ task[t].writes = <<>>
        /\ task[t].notices = <<"failed">> /\ ~isUpdating

----------------------------------------------------------------------------
(* Rendering *)

\* No invocation is suspended, no notification waits, the guard is clear.
Idle == InFlight = {} /\ pending = {} /\ ~isUpdating

\* C3: when every write's notification is delivered and every await
\* resolves, and nobody else changes the document or the reminders after the
\* one event that starts the engine, the engine writes finitely often: from
\* some point on it is idle for good, with isUpdating false.
C3_NoInfiniteLoop == <>[]Idle

\* The invocation has rendered: updateReminderSection has returned for the
\* text in `content`.
Rendered(tk) ==
    \/ tk.pc \in {"udn_modify", "udn_resume"}
    \/ tk.pc = "done" /\ tk.out \in {"updated", "uptodate"}

\* The invocation renders right after a render for the same date, from the
\* text that render left.
RendersAgain(tk) ==
    /\ Rendered(tk)
    /\ tk.prev.out \in {"updated", "uptodate"}
    /\ tk.prev.date = tk.date
    /\ tk.content = tk.prev.left

\* C4: a render that follows a render of the same reminders, from the text
\* the first one left, finds nothing to change: it never reaches
\* vault.modify, writes nothing and ends on the "already up to date" branch.
C4_RenderIdempotent ==
    \A t \in Tasks :
        RendersAgain(task[t]) =>
            /\ task[t].pc = "done"
            /\ task[t].out = "uptodate"
            /\ task[t].writes = <<>>

\* The text before the first start marker, and the text after the first end
\* marker.
BeforeStart(text) == Substring(text, 0, IndexOf(text, startMarker))
AfterEnd(text) == SubstringFrom(text, IndexOf(text, endMarker) + Len(endMarker))

\* C5: the text a render is about to write has, before its start marker and
\* after its end marker, the text that the document read had there.
C5_MarkerIsolation ==
    \A t \in Tasks :
        task[t].pc = "udn_modify" =>
            /\ BeforeStart(task[t].newContentString) = BeforeStart(task[t].content)
            /\ AfterEnd(task[t].newContentString) = AfterEnd(task[t].content)

----------------------------------------------------------------------------
(* Reconciliation *)

\* handleFileModify has gone through all lines of the section.
LoopDone(tk) == tk.op = "hfm" /\ tk.hout \in {"synced", "heal"}

\* The section lines of the invocation that identify reminder r, the checked
\* state of line k, and the invocation's updateReminder calls for r.
LinesFor(tk, r) ==
    {k \in 1..Len(tk.lines) : reminderOf(reminders, tk.todosOfDate, tk.lines[k]) = r}
CheckedAt(tk, k) == todoOf(tk.lines[k]).checked
CallsFor(tk, r) == SelectSeq(tk.sinks, LAMBDA c : c[1] = r)

\* handleFileModify runs on the section that the handleFileModify before it
\* has gone through with at least one updateReminder call.
RunsAgain(tk) ==
    /\ tk.op = "hfm"
    /\ tk.pc = "hfm_sink" \/ LoopDone(tk)
    /\ tk.prev.op = "hfm" /\ tk.prev.hout = "synced"
    /\ tk.prev.file = tk.file
    /\ sectionLines(tk.prev.content) = tk.lines

\* C7: for a section line that identifies a reminder whose done differed
\* from the line's checked state when the text was read, handleFileModify
\* calls updateReminder for that reminder exactly once, with the line's
\* state; handleFileModify run again on the same section makes no call.
C7_ReconcileExact ==
    \A t \in Tasks :
        /\ LoopDone(task[t]) =>
              \A r \in 1..Len(reminders) : \A k \in LinesFor(task[t], r) :
                  CheckedAt(task[t], k) # task[t].seen[r] =>
                      CallsFor(task[t], r) = <<<<r, CheckedAt(task[t], k)>>>>
        /\ RunsAgain(task[t]) => task[t].sinks = <<>>

\* All lines of the section that identify reminder r have the same checked
\* state.
Agree(tk, r) ==
    \A j \in LinesFor(tk, r), k \in LinesFor(tk, r) : CheckedAt(tk, j) = CheckedAt(tk, k)

\* C7, for the reminders whose lines agree: one call with the lines' state
\* when done differed from it and none when it did not; handleFileModify run
\* again on the same section makes no call for such a reminder.
C7_ReconcileAgreed ==
    \A t \in Tasks : \A r \in 1..Len(reminders) :
        Agree(task[t], r) =>
            /\ LoopDone(task[t]) =>
                  \A k \in LinesFor(task[t], r) :
                      CallsFor(task[t], r) =
                          IF CheckedAt(task[t], k) # task[t].seen[r]
                          THEN <<<<r, CheckedAt(task[t], k)>>>> ELSE <<>>
            /\ RunsAgain(task[t]) => CallsFor(task[t], r) = <<>>

\* handleFileModify has run again, to the end of its loop, after a run that
\* made exactly one call for a reminder.
C7_Witness ==
    \E t \in Tasks : \E r \in 1..Len(reminders) :
        /\ RunsAgain(task[t]) /\ LoopDone(task[t])
        /\ LinesFor(task[t], r) # {} /\ Agree(task[t], r)
        /\ Len(task[t].prev.sinks) = 1 /\ task[t].prev.sinks[1][1] = r

----------------------------------------------------------------------------
(* Toggles *)

\* The marked section of the text of a note of the date has a line that
\* identifies reminder r and has checked state c.
Shows(text, date, r, c) ==
    /\ IndexOf(text, startMarker) # -1 /\ IndexOf(text, endMarker) # -1
    /\ \E k \in 1..Len(sectionLines(text)) :
          /\ reminderOf(reminders, byDate(reminders, date), sectionLines(text)[k]) = r
          /\ todoOf(sectionLines(text)[k]).checked = c

\* The toggles <<file, <<reminder, state>>>> that wait for their propagation:
\* the notification is to be delivered, or the handleFileModify it started
\* has neither called updateReminder with the toggled state nor failed; and
\* the reminder is not in the toggled state.
Waiting ==
    {w \in {<<n.file, n.why>> : n \in pending}
           \cup {<<task[t].file, task[t].why>> :
                    t \in {u \in Tasks : /\ task[u].op = "hfm"
                                         /\ task[u].hout # "threw"
                                         /\ \A i \in 1..Len(task[u].sinks) :
                                               task[u].sinks[i] # task[u].why}} :
        w[2][1] # 0 /\ reminders[w[2][1]].done # w[2][2]}

\* The toggle is in the text of its file.
Shown(fs, w) == Shows(fs[w[1]].text, getDailyNoteDate(fs[w[1]]), w[2][1], w[2][2])

\* The step is a write of updateDailyNote.
EngineWrite ==
    \E t \in Tasks : task[t].pc = "udn_modify" /\ task'[t].pc = "udn_resume"

\* C8: a toggle of a reminder line of the section is propagated: no write of
\* the engine takes a waiting toggle out of the document, and when the engine
\* has come to rest with the setting on, no toggle that the document shows
\* is still waiting, whether or not an updateDailyNote was in flight when
\* the notification came.
C8_TogglePropagated ==
    /\ [][\A w \in Waiting : (EngineWrite /\ Shown(files, w)) => Shown(files', w)]_vars
    /\ []((Idle /\ stimuli = 0 /\ enabled) => \A w \in Waiting : ~Shown(files, w))

\* The text handleFileModify read shows the toggle its notification came from.
ReadShows(tk) ==
    \E k \in LinesFor(tk, tk.why[1]) : CheckedAt(tk, k) = tk.why[2]

\* What holds for a notification that handleFileModify takes up: when the
\* invocation has passed the guard and gone through the section it read, and
\* that section shows the toggle, it has called updateReminder for the
\* reminder with the toggled state, unless the reminder had that state when
\* the text was read.
ToggleSynced ==
    \A t \in Tasks :
        (LoopDone(task[t]) /\ task[t].why[1] # 0 /\ ReadShows(task[t])) =>
            \/ \E i \in 1..Len(task[t].sinks) : task[t].sinks[i] = task[t].why
            \/ task[t].seen[task[t].why[1]] = task[t].why[2]

\* handleFileModify has propagated the toggle its notification came from.
ToggleSyncedWitness ==
    \E t \in Tasks :
        /\ LoopDone(task[t]) /\ task[t].why[1] # 0 /\ ReadShows(task[t])
        /\ task[t].sinks = <<task[t].why>>
        /\ reminders[task[t].why[1]].done = task[t].why[2]

----------------------------------------------------------------------------
(* The healing render *)

\* The text with every checkbox unchecked.
Unchecked(text) == [i \in 1..Len(text) |-> IF text[i] = "cb1" THEN "cb0" ELSE text[i]]

\* From its first start marker on, the text holds the start marker, one
\* rendered line per reminder of the date in collection order, and the end
\* marker (whatever the checkboxes' states).
HoldsSection(text, date) ==
    LET at == IndexOf(text, startMarker)
        section == newSection(reminders, byDate(reminders, date))
    IN /\ at # -1
       /\ Unchecked(Substring(text, at, at + Len(section))) = Unchecked(section)

\* The text the render of the invocation left in its note.
Left(tk) == IF tk.out = "updated" THEN VaultStore(tk.newContentString) ELSE tk.content

\* C9: a handleFileModify that passed its guards, found the markers and
\* changed no reminder has invoked updateDailyNote(true, fileDate), after
\* which (the render not having failed) the section of the modified file
\* holds one rendered line per reminder of the date, in collection order; a
\* handleFileModify that changed a reminder renders and writes nothing.
C9_HealingFallback ==
    \A t \in Tasks :
        task[t].op = "hfm" =>
            /\ (task[t].pc = "done" /\ task[t].hout = "synced") => task[t].sinks # <<>>
            /\ (task[t].pc = "done" /\ task[t].hout = "heal" /\ task[t].out # "failed") =>
                  /\ task[t].quiet
                  /\ HoldsSection(files[task[t].file].text, task[t].date)
            /\ task[t].sinks # <<>> => task[t].writes = <<>> /\ task[t].out = "none"

\* What holds of the healing render: updateDailyNote(true, fileDate) is
\* invoked as stated; it returns at its entry check only when the guard was
\* set meanwhile; when it ends on the "updated" or the "up to date" branch,
\* the text it left in the note that findDailyNote resolved holds the
\* rendered section; and a handleFileModify that changed a reminder renders
\* and writes nothing.
HealsResolvedNote ==
    \A t \in Tasks :
        task[t].op = "hfm" =>
            /\ (task[t].pc = "done" /\ task[t].hout = "synced") => task[t].sinks # <<>>
            /\ task[t].hout = "heal" =>
                  /\ task[t].quiet /\ task[t].sinks = <<>> /\ task[t].notices = <<>>
                  /\ task[t].date = getDailyNoteDate(files[task[t].file])
                  /\ task[t].out = "noop" => task[t].metGuard
                  /\ (task[t].pc = "done" /\ task[t].out \in {"updated", "uptodate"}) =>
                        HoldsSection(Left(task[t]), task[t].date)
            /\ task[t].sinks # <<>> =>
                  /\ task[t].writes = <<>> /\ task[t].out = "none"
                  /\ task[t].hout # "heal"

\* A healing render has added the line of a reminder that the section read
\* did not have.
HealsResolvedNoteWitness ==
    \E t \in Tasks :
        /\ task[t].op = "hfm" /\ task[t].hout = "heal"
        /\ task[t].pc = "done" /\ task[t].out = "updated"
        /\ task[t].dailyNote = task[t].file
        /\ \E r \in 1..Len(reminders) :
              /\ \E j \in 1..Len(task[t].todosOfDate) : task[t].todosOfDate[j] = r
              /\ LinesFor(task[t], r) = {}

----------------------------------------------------------------------------
(* The silent no-op *)

\* updateDailyNote of the invocation returned at its entry check.
ReturnedAtCheck(tk) == tk.out = "noop"

\* C11: an updateDailyNote that begins while the setting is off or while
\* isUpdating is true returns at its entry check, whatever quiet is: it asks
\* for no read and no write, shows no notice, and the step leaves isUpdating
\* as it was, so the guard of a render in flight stays set.
C11_SilentNoOp ==
    /\ [](\A t \in Tasks :
            /\ (task[t].op = "udn" /\ task[t].pc # "free"
                    /\ (task[t].metGuard \/ ~enabled)) => ReturnedAtCheck(task[t])
            /\ (task[t].op = "udn" /\ ReturnedAtCheck(task[t])) =>
                  /\ task[t].pc = "done"
                  /\ task[t].reads = <<>> /\ task[t].writes = <<>>
                  /\ task[t].notices = <<>> /\ task[t].sinks = <<>>)
    /\ [][(UdnSkips /\ \E quiet \in BOOLEAN, date \in Dates : StartUpdate(quiet, date)) =>
             /\ isUpdating' = isUpdating
             /\ files' = files /\ reminders' = reminders /\ pending' = pending
             /\ InGuarded' = InGuarded]_vars
    /\ [][\A t \in Tasks :
             (HfmReadOk(t) /\ task'[t].hout = "heal" /\ ReturnedAtCheck(task'[t])) =>
                 /\ isUpdating' = isUpdating /\ isUpdating
                 /\ task'[t].writes = <<>> /\ task'[t].notices = <<>>]_vars

\* A non-quiet updateDailyNote has returned at the check while a render is
\* suspended with the guard set.
C11_Witness ==
    \E t \in Tasks :
        /\ task[t].op = "udn" /\ ReturnedAtCheck(task[t]) /\ ~task[t].quiet
        /\ enabled /\ task[t].metGuard
        /\ isUpdating /\ InGuarded # {}

----------------------------------------------------------------------------
(* Concurrency *)

\* C12: at no time are two invocations of updateDailyNote / handleFileModify
\* both suspended at an await (a read, a write or an updateReminder call).
C12_NoConcurrency == Cardinality(InFlight) <= 1

----------------------------------------------------------------------------
(* Document resolution *)

\* Base names of the vault's files: the date itself, the date with other
\* text before or after it, another date, and a name without a date.
Bases == {<<"d1">>, <<"x", "d1">>, <<"d1", "x">>, <<"d2">>, <<"x">>}

\* The vaults: up to MaxFiles files in any order, equal names and equal
\* mtimes included (files of the same name lie in different folders).
FileLists ==
    UNION {[1..n -> {File(b, m, <<"S", "nl", "nl", "E">>) : b \in Bases, m \in 1..MaxMtime}] :
              n \in 0..MaxFiles}

\* One updateDailyNote on any such vault: it resolves the note of its date.
InitFiles ==
    /\ files \in FileLists
    /\ reminders = <<>>
    /\ enabled = TRUE
    /\ isUpdating = FALSE
    /\ task = [t \in Tasks |-> [NewTask("none") EXCEPT !.prev = NoHistory]]
    /\ pending = {}
    /\ stimuli = 1
NextFiles == \E quiet \in BOOLEAN, date \in Dates : StartUpdate(quiet, date)
SpecFiles == InitFiles /\ [][NextFiles]_vars

\* updateDailyNote of the invocation has called findDailyNote, and what it
\* got: a place in the file list, or NoFile for null.
HasResolved(tk) == tk.op = "udn" /\ (tk.pc = "udn_read" \/ tk.out = "notfound")
Resolved(tk) == IF tk.out = "notfound" THEN NoFile ELSE tk.dailyNote

\* The files whose base name is the date string, and those whose name
\* contains it.
ExactMatches(fs, date) == {i \in 1..Len(fs) : fs[i].base = <<date>>}
LooseMatches(fs, date) ==
    {i \in 1..Len(fs) : \E k \in 1..Len(name(fs[i])) : name(fs[i])[k] = date}
MatchSet(fs, date) ==
    IF ExactMatches(fs, date) # {} THEN ExactMatches(fs, date) ELSE LooseMatches(fs, date)

\* C13: findDailyNote returns null exactly when no file name contains the
\* date string; with a file whose base name is the date string it returns
\* such a file, whatever the mtimes of the files that only contain the date;
\* otherwise it returns a file whose name contains the date; and no file of
\* the match set is newer than the one returned.
C13_Resolution ==
    \A t \in Tasks :
        HasResolved(task[t]) =>
            LET r == Resolved(task[t])
                date == task[t].date
            IN /\ r = NoFile <=> LooseMatches(files, date) = {}
               /\ ExactMatches(files, date) # {} => r \in ExactMatches(files, date)
               /\ r # NoFile => r \in MatchSet(files, date)
               /\ r # NoFile =>
                     \A j \in MatchSet(files, date) : files[j].mtime <= files[r].mtime

\* The exact match was returned although a file that only contains the date
\* is newer.
C13_Witness ==
    \E t \in Tasks :
        /\ HasResolved(task[t]) /\ Resolved(task[t]) \in ExactMatches(files, task[t].date)
        /\ \E j \in LooseMatches(files, task[t].date) \ ExactMatches(files, task[t].date) :
              files[j].mtime > files[Resolved(task[t])].mtime

\* The files of the match set that share its greatest mtime.
Newest(fs, date) ==
    {i \in MatchSet(fs, date) : \A j \in MatchSet(fs, date) : fs[j].mtime <= fs[i].mtime}

\* C14: among the matching files that share the greatest mtime,
\* findDailyNote returns the first in the order of the file list.
C14_TieBreakFirst ==
    \A t \in Tasks :
        (HasResolved(task[t]) /\ Resolved(task[t]) # NoFile) =>
            \A j \in Newest(files, task[t].date) : Resolved(task[t]) <= j

\* C14, as the reducer has it: among the matching files that share the
\* greatest mtime, findDailyNote returns the last in the order of the file
\* list.
C14_TieBreakLast ==
    \A t \in Tasks :
        (HasResolved(task[t]) /\ Resolved(task[t]) # NoFile) =>
            /\ Resolved(task[t]) \in Newest(files, task[t].date)
            /\ \A j \in Newest(files, task[t].date) : j <= Resolved(task[t])

\* A file was returned that shares the greatest mtime with another.
C14_Witness ==
    \E t \in Tasks :
        /\ HasResolved(task[t]) /\ Resolved(task[t]) # NoFile
        /\ Cardinality(Newest(files, task[t].date)) >= 2

----------------------------------------------------------------------------
(* Notices *)

\* The outcomes updateDailyNote shows a notice for.
Shown5 == {"notfound", "nomarkers", "updated", "uptodate", "failed"}

\* updateDailyNote of the invocation has ended.
UdnEnded(tk) == tk.pc = "done" /\ tk.out # "none"

\* C15: every updateDailyNote with quiet = false has shown exactly one notice
\* when it has ended, one of the five outcomes, and every updateDailyNote with
\* quiet = true, the healing render included, shows none.
C15_AlwaysOneNotice ==
    \A t \in Tasks :
        /\ (UdnEnded(task[t]) /\ ~task[t].quiet) =>
              /\ Len(task[t].notices) = 1
              /\ task[t].notices[1] \in Shown5
        /\ task[t].quiet => task[t].notices = <<>>

\* C15, for the invocations that pass the entry check: a non-quiet
\* updateDailyNote has shown exactly one notice when it has ended, the one of
\* its outcome, and none before; one that returned at the entry check has
\* shown none; a quiet one, the healing render included, shows none.
C15_OneNoticePastCheck ==
    \A t \in Tasks :
        /\ (UdnEnded(task[t]) /\ ~task[t].quiet /\ task[t].out # "noop") =>
              /\ task[t].notices = <<task[t].out>>
              /\ task[t].out \in Shown5
        /\ (~UdnEnded(task[t]) \/ task[t].out = "noop") => task[t].notices = <<>>
        /\ task[t].quiet => task[t].notices = <<>>
        /\ task[t].hout = "heal" => task[t].quiet

\* A non-quiet updateDailyNote has written and shown its one notice, and a
\* healing render has ended without one.
C15_Witness ==
    \E t \in Tasks, u \in Tasks :
        /\ task[t].op = "udn" /\ ~task[t].quiet
        /\ task[t].out = "updated" /\ task[t].notices = <<"updated">>
        /\ task[u].hout = "heal" /\ task[u].pc = "done"
        /\ task[u].out \in Shown5 /\ task[u].notices = <<>>

----------------------------------------------------------------------------
(* The reminder collection *)

\* The reminder without its done state.
Identity(r) == [r EXCEPT !.done = FALSE]

\* The invocation makes an updateReminder call in the step.
Calls(t) == task'[t].pc = "hfm_sink" /\ task'[t].sinks # task[t].sinks

\* C16: no step adds, removes or reorders reminders or changes a reminder's
\* title, file, date or key; a reminder's done changes only to the state
\* passed in an updateReminder call that handleFileModify made for it;
\* updateDailyNote, the healing render included, makes no such call; and
\* every call is for a reminder of the date of the modified file, matched by
\* the line at hand, whose done differs from that line's checked state.
C16_OnlyDoneRequested ==
    /\ [][/\ Len(reminders') = Len(reminders)
          /\ \A r \in 1..Len(reminders) :
                /\ Identity(reminders'[r]) = Identity(reminders[r])
                /\ reminders'[r].done # reminders[r].done =>
                      \E t \in Tasks : /\ task[t].pc = "hfm_sink"
                                       /\ task[t].call = <<r, reminders'[r].done>>]_vars
    /\ [](\A t \in Tasks :
            (task[t].op = "udn" \/ task[t].out # "none") => task[t].sinks = <<>>)
    /\ [][\A t \in Tasks :
            Calls(t) =>
                LET tk == task'[t]
                    r == tk.call[1]
                IN /\ tk.sinks = Append(task[t].sinks, tk.call)
                   /\ reminders'[r].date = tk.date
                   /\ tk.date = getDailyNoteDate(files[tk.file])
                   /\ reminderOf(reminders', tk.todosOfDate, tk.lines[tk.line]) = r
                   /\ todoOf(tk.lines[tk.line]).checked = tk.call[2]
                   /\ reminders'[r].done # tk.call[2]]_vars

\* handleFileModify has set a reminder of the file's date in a collection
\* that also holds a reminder of another date.
C16_Witness ==
    \E t \in Tasks :
        /\ task[t].op = "hfm" /\ task[t].hout = "synced" /\ Len(task[t].sinks) = 1
        /\ reminders[task[t].sinks[1][1]].done = task[t].sinks[1][2]
        /\ \E r \in 1..Len(reminders) : reminders[r].date # task[t].date

----------------------------------------------------------------------------
(* Failures of handleFileModify *)

\* An await of handleFileModify rejects in the step.
HfmFails(t) == HfmReadFail(t) \/ SinkFail(t)

\* C17: when vault.read or an updateReminder call of handleFileModify fails,
\* the invocation ends with the failure: it makes no further updateReminder
\* call, starts no healing render and writes nothing, the reminders set by
\* its earlier calls stay as they are, and isUpdating is false after the
\* step.
C17_FailurePropagates ==
    /\ [](\A t \in Tasks :
            task[t].hout = "threw" =>
               /\ task[t].pc = "done" /\ task[t].out = "none"
               /\ task[t].writes = <<>> /\ task[t].notices = <<>>)
    /\ [][\A t \in Tasks :
            HfmFails(t) =>
               /\ task'[t].hout = "threw" /\ task'[t].sinks = task[t].sinks
               /\ reminders' = reminders /\ files' = files
               /\ ~isUpdating']_vars

\* What holds of the guard: handleFileModify never holds it, so its failure
\* leaves isUpdating as it was, and isUpdating is then true only while an
\* updateDailyNote that began during handleFileModify's await is in flight.
FailureLeavesGuard ==
    [][\A t \in Tasks :
          HfmFails(t) =>
             /\ isUpdating' = isUpdating
             /\ isUpdating' => InGuarded' # {}]_vars

----------------------------------------------------------------------------
(* Matching of lines to reminders *)

\* Bodies of a checklist line: the beginning of a title or none, then pieces
\* of reminder-key comments and keys in any arrangement of up to MaxBody
\* tokens.
Bodies ==
    {title \o rest :
        title \in {<<>>, <<"a">>, <<"b">>, <<"a", "b">>},
        rest \in UNION {[1..n -> {"ko", "kc", "k1", "k2"}] : n \in 0..MaxBody}}

\* The note of d1 was saved with one checklist line in its section, and the
\* notification waits.
InitMatch ==
    /\ files \in {<<File(<<"d1">>, 1, <<"S", "nl", c>> \o body \o <<"nl", "E">>)>> :
                     c \in {"cb0", "cb1"}, body \in Bodies}
    /\ reminders \in InitReminders \cup MoreReminders
    /\ enabled = TRUE
    /\ isUpdating = FALSE
    /\ task = [t \in Tasks |-> [NewTask("none") EXCEPT !.prev = NoHistory]]
    /\ pending = {Notification(1, <<0, FALSE>>)}
    /\ stimuli = 0
NextMatch == Step \/ Notify
SpecMatch == InitMatch /\ [][NextMatch]_vars

\* The reminder-key comment of a body: the places of the leftmost opening
\* that has a closing after it, and what stands between it and the nearest
\* closing.
Opens(body) ==
    {i \in 1..Len(body) : body[i] = "ko" /\ \E j \in (i + 1)..Len(body) : body[j] = "kc"}
HasComment(body) == Opens(body) # {}
CommentValue(body) ==
    LET i == CHOOSE o \in Opens(body) : \A p \in Opens(body) : o <= p
        closes == {j \in (i + 1)..Len(body) : body[j] = "kc"}
    IN SubSeq(body, i + 1, (CHOOSE c \in closes : \A d \in closes : c <= d) - 1)

\* The first reminder of the date with the key, and the first whose title
\* is a prefix of the body (0: none).
First(S) == IF S = {} THEN 0 ELSE CHOOSE r \in S : \A q \in S : r <= q
KeyedBy(date, value) ==
    First({r \in 1..Len(reminders) : reminders[r].date = date /\ Key(reminders[r]) = value})
TitledBy(date, body) ==
    First({r \in 1..Len(reminders) :
              /\ reminders[r].date = date
              /\ Len(reminders[r].title) <= Len(body)
              /\ \A k \in 1..Len(reminders[r].title) : body[k] = reminders[r].title[k]})

\* The section handleFileModify went through holds one checklist line.
OneLine(tk) ==
    /\ LoopDone(tk)
    /\ Len(tk.lines) = 3 /\ tk.lines[1] = <<>> /\ tk.lines[3] = <<>>
    /\ tk.lines[2] # <<>> /\ tk.lines[2][1] \in {"cb0", "cb1"}

\* What handleFileModify has called when its one line matched reminder r.
CallsWhenMatched(tk, r) ==
    IF r # 0 /\ tk.seen[r] # (tk.lines[2][1] = "cb1")
    THEN <<<<r, tk.lines[2][1] = "cb1">>>> ELSE <<>>

\* C18: a line with a reminder-key comment is matched to the reminder of the
\* date with that key and to none when no reminder has it; a line without
\* the comment is matched to the first reminder of the date whose title is
\* a prefix of the body; the line's one match decides the call made.
C18_KeyThenTitle ==
    \A t \in Tasks :
        OneLine(task[t]) =>
            LET body == Tail(task[t].lines[2])
            IN task[t].sinks =
                  CallsWhenMatched(task[t],
                      IF HasComment(body)
                      THEN KeyedBy(task[t].date, CommentValue(body))
                      ELSE TitledBy(task[t].date, body))

\* What `if (key)` does: a comment with nothing between its opening and
\* its closing counts as no comment, and the line is matched by title;
\* every other line is matched as C18 says.
NonEmptyKeyThenTitle ==
    \A t \in Tasks :
        OneLine(task[t]) =>
            LET body == Tail(task[t].lines[2])
            IN task[t].sinks =
                  CallsWhenMatched(task[t],
                      IF HasComment(body) /\ CommentValue(body) # <<>>
                      THEN KeyedBy(task[t].date, CommentValue(body))
                      ELSE TitledBy(task[t].date, body))

\* The line's key names one reminder and its body begins with the title of
\* an earlier one: handleFileModify has set the reminder of the key.
C18_Witness ==
    \E t \in Tasks :
        /\ OneLine(task[t]) /\ Len(task[t].sinks) = 1
        /\ HasComment(Tail(task[t].lines[2]))
        /\ task[t].sinks[1][1] = KeyedBy(task[t].date, CommentValue(Tail(task[t].lines[2])))
        /\ TitledBy(task[t].date, Tail(task[t].lines[2])) \notin {0, task[t].sinks[1][1]}

----------------------------------------------------------------------------
(* The file handleFileModify writes *)

\* C19: every write of a handleFileModify goes to the file it was notified
\* about: its healing render resolves that file and no other.
C19_WritesOwnFile ==
    \A t \in Tasks :
        task[t].op = "hfm" =>
            /\ \A k \in 1..Len(task[t].writes) : task[t].writes[k] = task[t].file
            /\ task[t].hout = "heal" => task[t].dailyNote \in {NoFile, task[t].file}

====
